---- MODULE Spec2Model ----
(***************************************************************************)
(* AutoAnalyst-AI: the query planner (backend/app/agents/planner.py) and   *)
(* the retrieval tool (backend/app/agents/tools/rag_tool.py).              *)
(*                                                                         *)
(* Texts are sequences of string fragments (an f-string is the sequence    *)
(* of its literal and interpolated parts); the empty text is <<>>.         *)
(* Timestamps are left out: no modelled decision reads them.               *)
(***************************************************************************)
EXTENDS Integers, Sequences, FiniteSets, TLC

VARIABLES
    agent_executor,     \* QueryPlanner.agent_executor is set (planner.py:25, 115)
    sessions,           \* QueryPlanner.sessions: session id -> [messages, memory]
    req,                \* the process_query calls in flight, one per request slot
    ncalls,             \* per session: process_query calls returned since it was last cleared
    vectorstore,        \* RAGTool.vectorstore: None or the in-memory FAISS index
    document_metadata,  \* RAGTool.document_metadata: filename -> metadata
    disk_index,         \* the persisted faiss_index artifact
    disk_metadata,      \* the persisted metadata.pkl artifact
    response,           \* what the last RAGTool or DocumentService call returned (or raised)
    deleted,            \* filenames whose delete_document returned true, not ingested since
    clear_result,       \* what the last clear_session call returned
    planner_tool        \* the RAGTool the planner constructs for itself (planner.py:54-55)

plannerVars == <<agent_executor, sessions, req, ncalls, clear_result>>
ragVars == <<vectorstore, document_metadata, disk_index, disk_metadata, response, deleted,
             planner_tool>>
vars == <<agent_executor, sessions, req, ncalls, clear_result,
          vectorstore, document_metadata, disk_index, disk_metadata, response, deleted,
          planner_tool>>

None == "None"

(***************************************************************************)
(* Bounds of the model.                                                    *)
(***************************************************************************)
\* config.AGENT_MAX_ITERATIONS (environment-configurable, default 10).
AGENT_MAX_ITERATIONS == 3
\* Vectors the index may hold, and chunks one document may split into.
MaxVectors == 3
MaxChunks == 2
\* Request slots (concurrent process_query calls the model can hold).
NumRequests == 2
\* process_query calls per behaviour: in the single-session specifications
\* of the agent loop, and in the multi-turn one.
AgentCalls == 1
SessionCalls == 3
\* Vectors the index may hold when only successful ingestions are taken.
IngestVectors == 4
\* Vectors the index may hold where a search is to meet more candidates
\* than it retrieves.
TopKVectors == 6
\* process_query calls between two clears, where sessions are cleared and
\* created again.
LifecycleCalls == 2
\* process_query calls on one session where its memory is to outgrow the
\* window.
WindowCalls == 5
\* process_query calls between two clears, where calls overlap.
ConcurrentCalls == 2
\* process_query calls between two clears, where calls on two sessions
\* overlap.
IsolationCalls == 2

Requests == 1..NumRequests
SerialRequests == {1}
SessionIds == {"sA", "sB"}
Queries == {"q1", "q2"}

(***************************************************************************)
(* Texts.                                                                  *)
(***************************************************************************)
NonEmptyText(t) == \E i \in DOMAIN t : t[i] # ""

\* planner.py:179
ErrorAnswer(e) ==
    <<"I apologize, but I encountered an error while processing your query: ", e>>

\* AgentExecutor's answer when it stops at the iteration limit.
STOPPED_ANSWER == <<"Agent stopped due to iteration limit or time limit.">>

\* The observation of a step whose routing output could not be parsed.
INVALID_RESPONSE == <<"Invalid", "or", "incomplete", "response">>

(***************************************************************************)
(* Observations.  A dict observation carries its keys in `fields'; a text  *)
(* observation carries a token sequence in `text'.  A field value is a    *)
(* JSON value: a list (iterable) or null.                                  *)
(***************************************************************************)
ListValue(items) == [iterable |-> TRUE, items |-> items]
NullValue == [iterable |-> FALSE, items |-> <<>>]

DictObs(fields) == [type |-> "dict", fields |-> fields, text |-> <<>>]
StrObs(text) == [type |-> "str", fields |-> <<>>, text |-> text]

\* InvalidTool's observation for a tool name that is not registered.
InvalidToolObs(name) ==
    StrObs(<<name, "is", "not", "a", "valid", "tool", ",", "try", "one", "of",
             "[", "rag_search", ",", "sql_analytics", ",", "web_search", "]">>)

(***************************************************************************)
(* json.loads on a token sequence.  Grammar: a value is null, an array of  *)
(* string literals, or an object whose members are  key : (array | null).  *)
(* Any other token sequence raises (ok = FALSE).                           *)
(***************************************************************************)
Punct == {"{", "}", "[", "]", ":", ",", "null"}
ParseFail == [ok |-> FALSE, kind |-> "error", fields |-> <<>>, items |-> <<>>, next |-> 0]

RECURSIVE ParseItems(_, _, _)
\* The items of an array after its "[": t[i] is the next token to read.
ParseItems(t, i, acc) ==
    IF i > Len(t) THEN ParseFail
    ELSE IF t[i] = "]" /\ acc = <<>> THEN
        [ok |-> TRUE, kind |-> "list", fields |-> <<>>, items |-> acc, next |-> i + 1]
    ELSE IF t[i] \in Punct THEN ParseFail
    ELSE IF i + 1 > Len(t) THEN ParseFail
    ELSE IF t[i + 1] = "]" THEN
        [ok |-> TRUE, kind |-> "list", fields |-> <<>>,
         items |-> Append(acc, t[i]), next |-> i + 2]
    ELSE IF t[i + 1] = "," THEN ParseItems(t, i + 2, Append(acc, t[i]))
    ELSE ParseFail

\* A member value at t[i]: an array or null.
ParseValue(t, i) ==
    IF i > Len(t) THEN ParseFail
    ELSE IF t[i] = "null" THEN
        [ok |-> TRUE, kind |-> "null", fields |-> <<>>, items |-> <<>>, next |-> i + 1]
    ELSE IF t[i] = "[" THEN ParseItems(t, i + 1, <<>>)
    ELSE ParseFail

RECURSIVE ParseMembers(_, _, _)
\* The members of an object after its "{" (or after a ","): t[i] is a key.
ParseMembers(t, i, acc) ==
    IF i + 2 > Len(t) \/ t[i] \in Punct \/ t[i + 1] # ":" THEN ParseFail
    ELSE LET v == ParseValue(t, i + 2)
             val == IF v.kind = "list" THEN ListValue(v.items) ELSE NullValue
             acc2 == [k \in DOMAIN acc \cup {t[i]} |->
                        IF k = t[i] THEN val ELSE acc[k]]
         IN  IF ~v.ok \/ v.next > Len(t) THEN ParseFail
             ELSE IF t[v.next] = "}" THEN
                 [ok |-> TRUE, kind |-> "dict", fields |-> acc2, items |-> <<>>,
                  next |-> v.next + 1]
             ELSE IF t[v.next] = "," THEN ParseMembers(t, v.next + 1, acc2)
             ELSE ParseFail

json_loads(t) ==
    LET r == IF t = <<>> THEN ParseFail
             ELSE IF t[1] = "{" THEN
                 IF Len(t) >= 2 /\ t[2] = "}"
                 THEN [ok |-> TRUE, kind |-> "dict", fields |-> <<>>, items |-> <<>>,
                       next |-> 3]
                 ELSE ParseMembers(t, 2, <<>>)
             ELSE ParseValue(t, 1)
    IN  IF r.ok /\ r.next = Len(t) + 1 THEN r ELSE ParseFail

(***************************************************************************)
(* Agent steps and the extraction of artifacts from them.                  *)
(***************************************************************************)
ToolNames == {"rag_search", "sql_analytics", "web_search"}

\* One intermediate step: (AgentAction, observation).
AgentStep(tool, tool_input, obs) == <<[tool |-> tool, tool_input |-> tool_input], obs>>

InList(x, l) == \E i \in DOMAIN l : l[i] = x

\* planner.py:229-235: the tool of every step, in step order.
tools_used(steps) ==
    LET ok == SelectSeq(steps, LAMBDA step : Len(step) >= 2)
    IN  [i \in 1..Len(ok) |-> ok[i][1].tool]

_determine_query_type_first(query, steps) ==
    LET used == tools_used(steps)
        known == SelectSeq(used, LAMBDA t : t \in ToolNames)
    IN  IF known = <<>> THEN "general" ELSE known[1]

_determine_query_type(query, steps) ==
    LET used == tools_used(steps)
    IN  IF InList("rag_search", used) THEN "rag_search"
        ELSE IF InList("sql_analytics", used) THEN "sql_analytics"
        ELSE IF InList("web_search", used) THEN "web_search"
        ELSE "general"

Extracted(items) == [raised |-> FALSE, items |-> items]
ExtractRaised == [raised |-> TRUE, items |-> <<>>]

RECURSIVE ExtractFrom(_, _, _, _)
\* The loop of _extract_sources / _extract_charts from step i on, `acc'
\* being the list built so far.  list.extend of a value that is not
\* iterable raises TypeError: in the dict branch it leaves the function, in
\* the str branch the bare except swallows it.
ExtractFrom(steps, i, field, acc) ==
    IF i > Len(steps) THEN Extracted(acc)
    ELSE IF Len(steps[i]) < 2 THEN ExtractFrom(steps, i + 1, field, acc)
    ELSE LET observation == steps[i][2] IN
         IF observation.type = "dict" THEN
             IF field \in DOMAIN observation.fields THEN
                 IF observation.fields[field].iterable
                 THEN ExtractFrom(steps, i + 1, field,
                                  acc \o observation.fields[field].items)
                 ELSE ExtractRaised
             ELSE ExtractFrom(steps, i + 1, field, acc)
         ELSE LET parsed == json_loads(observation.text) IN
             IF parsed.ok /\ parsed.kind = "dict" /\ field \in DOMAIN parsed.fields
                /\ parsed.fields[field].iterable
             THEN ExtractFrom(steps, i + 1, field, acc \o parsed.fields[field].items)
             ELSE ExtractFrom(steps, i + 1, field, acc)

_extract_sources_dict_only(steps) ==
    ExtractFrom(SelectSeq(steps, LAMBDA step : step[2].type = "dict"), 1, "sources", <<>>)

_extract_sources(steps) == ExtractFrom(steps, 1, "sources", <<>>)

_extract_charts(steps) == ExtractFrom(steps, 1, "charts", <<>>)

(***************************************************************************)
(* Sessions.                                                               *)
(***************************************************************************)
NewSession == [memory |-> <<>>, messages |-> <<>>]

\* planner.py:192: chat_history[-6:]
MEMORY_WINDOW == 6

WholeSequence(s, n) == s

LastN(s, n) == IF Len(s) <= n THEN s ELSE SubSeq(s, Len(s) - n + 1, Len(s))

\* planner.py:189-196: one role-prefixed line per message of the window.
HistoryText(memory) ==
    LET recent == LastN(memory, MEMORY_WINDOW)
    IN  [i \in 1..Len(recent) |->
            IF recent[i].type = "human"
            THEN <<"Human: ", recent[i].content>>
            ELSE <<"Assistant: ", recent[i].content>>]

get_session_history(session_id) ==
    IF session_id \in DOMAIN sessions THEN sessions[session_id].messages ELSE <<>>

UserMessage(query) == [type |-> "user", content |-> <<query>>]

AssistantMessage(result) ==
    [type |-> "assistant", content |-> result.answer, sources |-> result.sources,
     charts |-> result.charts, query_type |-> result.query_type]

(***************************************************************************)
(* Requests.  pc: "idle" (no call yet), "init" (awaiting initialize),      *)
(* "think" (awaiting the language model), "act" (awaiting the tool),       *)
(* "returned" (process_query returned `result'), "raised" (process_query   *)
(* let an exception out).                                                  *)
(***************************************************************************)
NoAction == [tool |-> None, tool_input |-> None]
NoResult == [answer |-> <<>>, sources |-> <<>>, charts |-> <<>>, query_type |-> None]

IdleReq ==
    [pc |-> "idle", session_id |-> None, query |-> None, history_text |-> <<>>,
     memory_live |-> FALSE, steps |-> <<>>, iterations |-> 0, action |-> NoAction,
     forced |-> FALSE, result |-> NoResult, exc |-> None]

InFlight(r) == req[r].pc \in {"init", "think", "act"}

CallsSoFar ==
    LET RECURSIVE Sum(_)
        Sum(S) == IF S = {} THEN 0
                  ELSE LET s == CHOOSE x \in S : TRUE IN ncalls[s] + Sum(S \ {s})
    IN  Sum(SessionIds) + Cardinality({r \in Requests : InFlight(r)})

\* planner.py:176-183: the handler of process_query (`steps': the steps the
\* executor had taken, kept with the call for reference).
ExceptReraise(r, e, steps) ==
    /\ req' = [req EXCEPT ![r].pc = "raised", ![r].exc = e, ![r].steps = steps]
    /\ ncalls' = [ncalls EXCEPT ![req[r].session_id] = @ + 1]
    /\ UNCHANGED <<sessions, agent_executor>>

Except(r, e, steps) ==
    /\ req' = [req EXCEPT ![r].pc = "returned", ![r].exc = e, ![r].action = NoAction,
                          ![r].steps = steps,
                          ![r].result = [answer |-> ErrorAnswer(e), sources |-> <<>>,
                                         charts |-> <<>>, query_type |-> "error"]]
    /\ ncalls' = [ncalls EXCEPT ![req[r].session_id] = @ + 1]
    /\ UNCHANGED <<sessions, agent_executor>>

(***************************************************************************)
(* process_query.                                                          *)
(***************************************************************************)
\* planner.py:137-155 and 188-202: get or create the session, append the
\* user message, take the memory's window; then the agent is awaited.
EnterSession(r, s, q) ==
    LET session == IF s \in DOMAIN sessions THEN sessions[s] ELSE NewSession
        updated == [session EXCEPT !.messages = Append(@, UserMessage(q))]
    IN  /\ sessions' = [k \in DOMAIN sessions \cup {s} |->
                          IF k = s THEN updated ELSE sessions[k]]
        /\ req' = [req EXCEPT ![r] = [IdleReq EXCEPT
                        !.pc = "think", !.session_id = s, !.query = q,
                        !.memory_live = TRUE,
                        !.history_text = HistoryText(session.memory)]]
        /\ UNCHANGED ncalls

\* planner.py:130-135: a call arrives; initialize() is awaited first when
\* the executor is not there yet.
ProcessQuery(r, s, q, maxCalls) ==
    /\ req[r].pc \in {"idle", "returned"}
    /\ CallsSoFar < maxCalls
    /\ IF agent_executor
       THEN EnterSession(r, s, q)
       ELSE /\ req' = [req EXCEPT ![r] = [IdleReq EXCEPT
                            !.pc = "init", !.session_id = s, !.query = q]]
            /\ UNCHANGED <<sessions, ncalls>>
    /\ UNCHANGED agent_executor
    /\ UNCHANGED <<clear_result, ragVars>>

\* planner.py:32-48: initialize() returns, or raises what the LLM factory,
\* a tool's initialize or the agent construction raised.
Initialize(r, ok) ==
    /\ req[r].pc = "init"
    /\ IF ok
       THEN /\ agent_executor' = TRUE
            /\ EnterSession(r, req[r].session_id, req[r].query)
       ELSE Except(r, "InitializationError", <<>>)
    /\ UNCHANGED <<clear_result, ragVars>>

\* planner.py:206-221 and 160-174: the executor returned `output'; extract,
\* append the assistant message, update the memory, return.  extend() of a
\* non-iterable raises TypeError, sessions[session_id] of a cleared session
\* raises KeyError; both reach the handler.
RunAgentReturn(r, output, steps, forced) ==
    LET s == req[r].session_id
        query_type == _determine_query_type(req[r].query, steps)
        sources == _extract_sources(steps)
        charts == _extract_charts(steps)
        result == [answer |-> output, sources |-> sources.items,
                   charts |-> charts.items, query_type |-> query_type,
                   intermediate_steps |-> steps]
        memory2(m) == m \o <<[type |-> "human", content |-> <<req[r].query>>],
                             [type |-> "ai", content |-> output]>>
    IN  IF sources.raised \/ charts.raised THEN Except(r, "TypeError", steps)
        ELSE IF s \notin DOMAIN sessions THEN Except(r, "KeyError", steps)
        ELSE /\ sessions' = [sessions EXCEPT
                    ![s].messages = Append(@, AssistantMessage(result)),
                    ![s].memory = IF req[r].memory_live THEN memory2(@) ELSE @]
             /\ req' = [req EXCEPT ![r].pc = "returned", ![r].steps = steps,
                                   ![r].iterations = Len(steps),
                                   ![r].action = NoAction, ![r].forced = forced,
                                   ![r].result = result]
             /\ ncalls' = [ncalls EXCEPT ![s] = @ + 1]
             /\ UNCHANGED agent_executor

\* AgentExecutor: the loop goes on while iterations < max_iterations
\* (planner.py:120).
_should_continue_unbounded(iterations) == TRUE

_should_continue(iterations) == iterations < AGENT_MAX_ITERATIONS

\* AgentExecutor: a step is recorded and counted; at the limit the executor
\* stops with its canned answer instead of asking the model again.
Observe(r, step) ==
    LET steps == Append(req[r].steps, step)
        iterations == req[r].iterations + 1
    IN  IF _should_continue(iterations)
        THEN /\ req' = [req EXCEPT ![r].pc = "think", ![r].steps = steps,
                                   ![r].iterations = iterations,
                                   ![r].action = NoAction]
             /\ UNCHANGED <<sessions, ncalls, agent_executor>>
        ELSE RunAgentReturn(r, STOPPED_ANSWER, steps, TRUE)

\* The routing outputs of the language model.
Final(text) == [kind |-> "final", tool |-> None, text |-> text]
Action(tool) == [kind |-> "action", tool |-> tool, text |-> <<>>]
Malformed == [kind |-> "malformed", tool |-> None, text |-> <<>>]
ServiceError == [kind |-> "raise", tool |-> None, text |-> <<>>]

\* planner.py:204, one turn of the executor (handle_parsing_errors=True,
\* planner.py:119): the model's output is a final answer, an action on a
\* registered tool, an action on an unknown tool (answered by the
\* invalid-tool note), unparsable (answered by the error note), or the
\* call fails.
AgentPlan(r, out) ==
    /\ req[r].pc = "think"
    /\ CASE out.kind = "raise" -> Except(r, "ServiceError", req[r].steps)
         [] out.kind = "final" -> RunAgentReturn(r, out.text, req[r].steps, FALSE)
         [] out.kind = "malformed" ->
                Observe(r, AgentStep("_Exception", INVALID_RESPONSE,
                                     StrObs(INVALID_RESPONSE)))
         [] out.kind = "action" /\ out.tool \notin ToolNames ->
                Observe(r, AgentStep(out.tool, <<req[r].query>>,
                                     InvalidToolObs(out.tool)))
         [] out.kind = "action" /\ out.tool \in ToolNames ->
                /\ req' = [req EXCEPT ![r].pc = "act",
                              ![r].action = [tool |-> out.tool,
                                             tool_input |-> <<req[r].query>>]]
                /\ UNCHANGED <<sessions, ncalls, agent_executor>>
    /\ UNCHANGED <<clear_result, ragVars>>

\* The awaited tool returns its observation.
ToolReturn(r, observation) ==
    /\ req[r].pc = "act"
    /\ Observe(r, AgentStep(req[r].action.tool, req[r].action.tool_input, observation))
    /\ UNCHANGED <<clear_result, ragVars>>

\* planner.py:300-305.  The memory object of a deleted session stays with
\* the calls that hold it, and is no longer the session's.
ClearReturnedTrue(s, result) == [session_id |-> s, result |-> TRUE]

ClearReturned(s, result) == [session_id |-> s, result |-> result]

clear_every_session(s) ==
    /\ sessions' = <<>>
    /\ req' = [r \in Requests |->
                 IF InFlight(r) THEN [req[r] EXCEPT !.memory_live = FALSE] ELSE req[r]]
    /\ ncalls' = [k \in SessionIds |-> 0]
    /\ clear_result' = ClearReturned(s, s \in DOMAIN sessions)
    /\ UNCHANGED agent_executor
    /\ UNCHANGED ragVars

clear_session(s) ==
    /\ IF s \in DOMAIN sessions
       THEN /\ sessions' = [k \in DOMAIN sessions \ {s} |-> sessions[k]]
            /\ req' = [r \in Requests |->
                         IF req[r].session_id = s /\ InFlight(r)
                         THEN [req[r] EXCEPT !.memory_live = FALSE] ELSE req[r]]
            /\ ncalls' = [ncalls EXCEPT ![s] = 0]
            /\ clear_result' = ClearReturned(s, TRUE)
       ELSE /\ clear_result' = ClearReturned(s, FALSE)
            /\ UNCHANGED <<sessions, req, ncalls>>
    /\ UNCHANGED agent_executor
    /\ UNCHANGED ragVars

(***************************************************************************)
(* The retrieval tool.  A chunk in the index is [source, chunk_index,      *)
(* text]; the embedding capability places every text on a line, and the    *)
(* index reports squared L2 distances, here in units of 1/DIST_UNIT.       *)
(***************************************************************************)
Files == {"a.txt", "b.txt", "c.xyz"}

\* os.path.splitext(file_path)[1].lower()
Extension(file_path) ==
    CASE file_path = "a.txt" -> ".txt"
      [] file_path = "b.txt" -> ".txt"
      [] file_path = "c.xyz" -> ".xyz"

\* rag_tool.py:205-212
SupportedExtensionsAndXyz == {".pdf", ".txt", ".md", ".docx", ".doc", ".xyz"}

SupportedExtensions == {".pdf", ".txt", ".md", ".docx", ".doc"}

\* The text of the i-th chunk the splitter makes of a file.
ChunkText(file_path, i) ==
    IF i % 2 = 0 THEN "essay"
    ELSE IF file_path = "b.txt" THEN "grass" ELSE "sky"
SearchQueries == {"sky?", "grass?", "tax?"}

\* The embedding capability (opaque; one coordinate per text).
Embed(text) ==
    CASE text = "sky" -> 0
      [] text = "essay" -> 4
      [] text = "grass" -> 6
      [] text = "sky?" -> 1
      [] text = "grass?" -> 6
      [] text = "tax?" -> 20

\* len(page_content)
TextLen(text) ==
    CASE text = "sky" -> 31
      [] text = "essay" -> 950
      [] text = "grass" -> 16

\* 1 distance unit = 1/21, so that distance 3/7 (similarity 0.7) is 9 units.
DIST_UNIT == 21

Distance(query, text) == (Embed(query) - Embed(text)) * (Embed(query) - Embed(text))

\* rag_tool.py:255
TOP_K == 5
\* rag_tool.py:285
CONTENT_LIMIT == 200

\* rag_tool.py:262: similarity = 1.0 / (1.0 + score), as the fraction
\* num / den of a distance of d units.
Similarity(d) == [num |-> DIST_UNIT, den |-> DIST_UNIT + d]

\* rag_tool.py:262-263: similarity = 1.0 / (1.0 + score) > 0.7, in exact
\* arithmetic: DIST_UNIT / (DIST_UNIT + d) > 7/10.
IsRelevantInclusive(d) == 10 * DIST_UNIT >= 7 * (DIST_UNIT + d)

IsRelevant(d) == 10 * DIST_UNIT > 7 * (DIST_UNIT + d)

\* rag_tool.py:284: round(similarity * 100, 2), in hundredths of a percent.
SimilarityPercent(d) == (2 * 10000 * DIST_UNIT + (DIST_UNIT + d)) \div (2 * (DIST_UNIT + d))

\* rag_tool.py:285
Content(text) ==
    IF TextLen(text) > CONTENT_LIMIT
    THEN [text |-> text, upto |-> CONTENT_LIMIT, ellipsis |-> TRUE]
    ELSE [text |-> text, upto |-> TextLen(text), ellipsis |-> FALSE]

\* The vectorstore attribute: None, or a FAISS store holding `docs'.
NoVectorstore == [exists |-> FALSE, docs |-> <<>>]
Vectorstore(docs) == [exists |-> TRUE, docs |-> docs]
EmptyVectorstore == Vectorstore(<<>>)
ntotal(vs) == Len(vs.docs)

\* An artifact on disk: absent, or holding `data'.
NoArtifact == [exists |-> FALSE, data |-> <<>>]
Artifact(data) == [exists |-> TRUE, data |-> data]

\* rag_tool.py:153-160: the chunks of one document, with their metadata.
Chunks(filename, texts) ==
    [i \in 1..Len(texts) |-> [source |-> filename, chunk_index |-> i - 1, text |-> texts[i]]]

\* similarity_search_with_score: the k nearest chunks, nearest first (equal
\* distances in index order), each with its distance.
similarity_search_with_score(vs, query, k) ==
    LET n == ntotal(vs)
        d(i) == Distance(query, vs.docs[i].text)
        rank(i) == 1 + Cardinality({j \in 1..n : d(j) < d(i) \/ (d(j) = d(i) /\ j < i)})
        at(m) == CHOOSE i \in 1..n : rank(i) = m
    IN  [m \in 1..(IF n < k THEN n ELSE k) |-> [doc |-> vs.docs[at(m)], score |-> d(at(m))]]

\* The canned answers of _arun (rag_tool.py:231, 239, 247, 268, 297, 327).
NOT_INITIALIZED == <<"The document search system is not initialized yet. Please try again in a moment.">>
NO_DOCUMENTS == <<"No documents have been uploaded yet. Please upload some documents first.">>
DATABASE_EMPTY == <<"The document database is empty. Please upload some documents first.">>
NO_RELEVANT == <<"I couldn't find any relevant information in the uploaded documents. Please try rephrasing your question or upload more relevant documents.">>
SearchErrorEmpty(e) == <<>>
SearchError(e) == <<"I encountered an error while searching through documents: ", e, ". Please try again later.">>
AnswerError(e) == <<"I found relevant information but couldn't generate a complete answer: ", e>>
LLMAnswer(query, context) == <<"answer to ", query>>

\* What _arun returns, with what the call met: `raised' (it never lets an
\* exception out, rag_tool.py:294-300), `error' (the exception a handler
\* caught, None when nothing failed) and `llm_attempts' (the calls of the
\* language model it made).
SearchResponse(query, answer, sources, llm_called) ==
    [op |-> "search", query |-> query, answer |-> answer, sources |-> sources,
     llm_called |-> llm_called, raised |-> FALSE, error |-> None, llm_attempts |-> 0]

\* rag_tool.py:294-300: the handler of _arun.
SearchFailed(query, e) ==
    [SearchResponse(query, SearchError(e), <<>>, FALSE) EXCEPT !.error = e]

\* rag_tool.py:302-327: _generate_answer makes one call of the language
\* model; a failure is caught and answered by the error text.
_generate_answer_retrying(query, context, llm_ok) ==
    [answer |-> IF llm_ok THEN LLMAnswer(query, context) ELSE AnswerError("ServiceError"),
     error |-> IF llm_ok THEN None ELSE "ServiceError",
     attempts |-> IF llm_ok THEN 1 ELSE 3]

_generate_answer(query, context, llm_ok) ==
    [answer |-> IF llm_ok THEN LLMAnswer(query, context) ELSE AnswerError("ServiceError"),
     error |-> IF llm_ok THEN None ELSE "ServiceError",
     attempts |-> 1]

\* rag_tool.py:258-264
RelevantDocsUnfiltered(docs) == docs

RelevantDocs(docs) == SelectSeq(docs, LAMBDA p : IsRelevant(p.score))

\* rag_tool.py:280-286
FormatSourcesReversed(relevant_docs) ==
    [i \in 1..Len(relevant_docs) |->
        [filename |-> relevant_docs[Len(relevant_docs) + 1 - i].doc.source,
         similarity |-> SimilarityPercent(relevant_docs[Len(relevant_docs) + 1 - i].score),
         content |-> Content(relevant_docs[Len(relevant_docs) + 1 - i].doc.text)]]

FormatSources(relevant_docs) ==
    [i \in 1..Len(relevant_docs) |->
        [filename |-> relevant_docs[i].doc.source,
         similarity |-> SimilarityPercent(relevant_docs[i].score),
         content |-> Content(relevant_docs[i].doc.text)]]

\* rag_tool.py:273-292: the answer is generated, then the sources are
\* formatted and both returned.
SearchAnswered(query, relevant_docs, llm_ok) ==
    LET generated == _generate_answer(query, relevant_docs, llm_ok)
    IN  [SearchResponse(query, generated.answer, FormatSources(relevant_docs), TRUE)
            EXCEPT !.error = generated.error, !.llm_attempts = generated.attempts]

\* rag_tool.py:226-300: what _arun returns; embed_ok and llm_ok say whether
\* the embedding of the query and the language-model call succeed.
SearchWithoutTrackingCheck(query, embed_ok, llm_ok) ==
    IF ~vectorstore.exists THEN SearchResponse(query, NOT_INITIALIZED, <<>>, FALSE)
    ELSE IF ntotal(vectorstore) = 0 THEN SearchResponse(query, DATABASE_EMPTY, <<>>, FALSE)
    ELSE IF ~embed_ok THEN SearchFailed(query, "EmbeddingError")
    ELSE LET relevant_docs ==
                 RelevantDocs(similarity_search_with_score(vectorstore, query, TOP_K))
         IN  IF relevant_docs = <<>> THEN SearchResponse(query, NO_RELEVANT, <<>>, FALSE)
             ELSE SearchAnswered(query, relevant_docs, llm_ok)

SearchIn(vs, metadata, query, embed_ok, llm_ok) ==
    IF ~vs.exists THEN SearchResponse(query, NOT_INITIALIZED, <<>>, FALSE)
    ELSE IF DOMAIN metadata = {} THEN SearchResponse(query, NO_DOCUMENTS, <<>>, FALSE)
    ELSE IF ntotal(vs) = 0 THEN SearchResponse(query, DATABASE_EMPTY, <<>>, FALSE)
    ELSE IF ~embed_ok THEN SearchFailed(query, "EmbeddingError")
    ELSE LET relevant_docs == RelevantDocs(similarity_search_with_score(vs, query, TOP_K))
         IN  IF relevant_docs = <<>> THEN SearchResponse(query, NO_RELEVANT, <<>>, FALSE)
             ELSE SearchAnswered(query, relevant_docs, llm_ok)

Search(query, embed_ok, llm_ok) ==
    SearchIn(vectorstore, document_metadata, query, embed_ok, llm_ok)

_arun(query, embed_ok, llm_ok) ==
    /\ response' = Search(query, embed_ok, llm_ok)
    /\ UNCHANGED <<vectorstore, document_metadata, disk_index, disk_metadata, deleted>>
    /\ UNCHANGED <<planner_tool, plannerVars>>

(***************************************************************************)
(* Persistence and the operations that write.  Every handler below runs    *)
(* without suspending (its awaits are on coroutines that do no I/O wait),  *)
(* so each is one step.  `fail' names the place where the environment      *)
(* makes the call fail, "none" when it does not.                           *)
(***************************************************************************)
\* rag_tool.py:121-138: the index artifact is written, then the metadata
\* artifact; a failure at either write raises.
SaveRaises(fail) == fail \in {"save_index", "save_metadata"}

SavedIndex(vs, fail) == IF fail = "save_index" THEN disk_index ELSE Artifact(vs.docs)

SavedMetadata(md, fail) == IF SaveRaises(fail) THEN disk_metadata ELSE Artifact(md)

\* planner.py:23, 54-64: the planner's own RAGTool: none until
\* _initialize_tools has constructed and initialized one.
NoTool == [set |-> FALSE, vectorstore |-> NoVectorstore, document_metadata |-> <<>>,
           response |-> [op |-> "none"]]

\* rag_tool.py:34-40: a new RAGTool (the planner and the document service
\* each construct their own; a restart constructs them again).
Construct ==
    /\ vectorstore' = NoVectorstore
    /\ document_metadata' = <<>>
    /\ deleted' = {}
    /\ response' = [op |-> "construct"]
    /\ UNCHANGED <<disk_index, disk_metadata>>
    /\ UNCHANGED <<planner_tool, plannerVars>>

\* rag_tool.py:47-119: what initialize() makes of a tool whose metadata is
\* `metadata', and of the disk.  `found': the existence check of line 74
\* passes (the marker file faiss_index.faiss is the deployment's: save
\* never writes it); `fail' may be "embeddings", "load_index",
\* "load_metadata", "save_index" or "save_metadata".
LoadOrCreateKeepingIndex(metadata, found, fail) ==
    IF fail = "embeddings"
    THEN [raised |-> TRUE, vectorstore |-> NoVectorstore, document_metadata |-> metadata,
          disk_index |-> disk_index, disk_metadata |-> disk_metadata]
    ELSE IF found /\ disk_metadata.exists /\ disk_index.exists /\ fail # "load_index"
    THEN [raised |-> FALSE, vectorstore |-> Vectorstore(disk_index.data),
          document_metadata |-> IF fail = "load_metadata" THEN metadata
                                ELSE disk_metadata.data,
          disk_index |-> disk_index, disk_metadata |-> disk_metadata]
    ELSE [raised |-> SaveRaises(fail), vectorstore |-> EmptyVectorstore,
          document_metadata |-> metadata,
          disk_index |-> SavedIndex(EmptyVectorstore, fail),
          disk_metadata |-> SavedMetadata(metadata, fail)]

LoadOrCreate(metadata, found, fail) ==
    IF fail = "embeddings"
    THEN [raised |-> TRUE, vectorstore |-> NoVectorstore, document_metadata |-> metadata,
          disk_index |-> disk_index, disk_metadata |-> disk_metadata]
    ELSE IF found /\ disk_metadata.exists /\ disk_index.exists
            /\ fail \notin {"load_index", "load_metadata"}
    THEN [raised |-> FALSE, vectorstore |-> Vectorstore(disk_index.data),
          document_metadata |-> disk_metadata.data,
          disk_index |-> disk_index, disk_metadata |-> disk_metadata]
    ELSE [raised |-> SaveRaises(fail), vectorstore |-> EmptyVectorstore,
          document_metadata |-> metadata,
          disk_index |-> SavedIndex(EmptyVectorstore, fail),
          disk_metadata |-> SavedMetadata(metadata, fail)]

initialize(found, fail) ==
    /\ ~vectorstore.exists
    /\ LET made == LoadOrCreate(document_metadata, found, fail)
       IN  /\ vectorstore' = made.vectorstore
           /\ document_metadata' = made.document_metadata
           /\ disk_index' = made.disk_index
           /\ disk_metadata' = made.disk_metadata
           /\ response' = [op |-> "initialize", raised |-> made.raised]
    /\ UNCHANGED deleted
    /\ UNCHANGED <<planner_tool, plannerVars>>

\* planner.py:49-68: _initialize_tools() constructs the planner's own
\* RAGTool and initializes it; the tool is kept only if that did not raise.
_initialize_tools(found, fail) ==
    /\ ~planner_tool.set
    /\ LET made == LoadOrCreate(<<>>, found, fail)
       IN  /\ planner_tool' =
                 IF made.raised THEN NoTool
                 ELSE [set |-> TRUE, vectorstore |-> made.vectorstore,
                       document_metadata |-> made.document_metadata,
                       response |-> [op |-> "initialize"]]
           /\ disk_index' = made.disk_index
           /\ disk_metadata' = made.disk_metadata
    /\ UNCHANGED <<vectorstore, document_metadata, response, deleted>>
    /\ UNCHANGED plannerVars

\* The agent's rag_search: _arun of the planner's tool.
rag_search(query, embed_ok, llm_ok) ==
    /\ planner_tool.set
    /\ planner_tool' = [planner_tool EXCEPT !.response =
                            SearchIn(planner_tool.vectorstore,
                                     planner_tool.document_metadata,
                                     query, embed_ok, llm_ok)]
    /\ UNCHANGED <<vectorstore, document_metadata, disk_index, disk_metadata,
                   response, deleted>>
    /\ UNCHANGED plannerVars

\* rag_tool.py:163-173, the branch as written: the index is rebuilt from the
\* new chunks alone when it holds exactly one vector, else they are added.
IndexAfterAdd(vs, chunks) ==
    IF ntotal(vs) = 1 THEN Vectorstore(chunks) ELSE Vectorstore(vs.docs \o chunks)

AddRaised(filename) == [op |-> "add", filename |-> filename, raised |-> TRUE]

\* rag_tool.py:140-198: add_document(file_path); `texts' are the chunks the
\* splitter makes of the file.  `fail' may be "load" (the loader raises),
\* "no_content" (it returns nothing), "embed", "stat" (getsize raises),
\* "save_index" or "save_metadata".  Before initialize() there is no
\* splitter, and the call raises.
add_document(file_path, texts, fail, max_vectors) ==
    LET filename == file_path
        chunks == Chunks(filename, texts)
        new_vectorstore == IndexAfterAdd(vectorstore, chunks)
        new_metadata == [f \in DOMAIN document_metadata \cup {filename} |->
                            IF f = filename
                            THEN [file_path |-> file_path, chunks_count |-> Len(chunks)]
                            ELSE document_metadata[f]]
    IN  /\ vectorstore.exists => ntotal(vectorstore) + Len(texts) <= max_vectors
        /\ IF Extension(file_path) \notin SupportedExtensions
              \/ fail \in {"load", "no_content"}
              \/ ~vectorstore.exists
           THEN /\ response' = AddRaised(filename)
                /\ UNCHANGED <<vectorstore, document_metadata, disk_index,
                               disk_metadata, deleted>>
           ELSE IF chunks = <<>>
           THEN /\ response' = [op |-> "add", filename |-> filename, raised |-> FALSE,
                                returned |-> None]
                /\ UNCHANGED <<vectorstore, document_metadata, disk_index,
                               disk_metadata, deleted>>
           ELSE IF fail = "embed"
           THEN /\ response' = AddRaised(filename)
                /\ UNCHANGED <<vectorstore, document_metadata, disk_index,
                               disk_metadata, deleted>>
           ELSE IF fail = "stat"
           THEN /\ vectorstore' = new_vectorstore
                /\ response' = AddRaised(filename)
                /\ UNCHANGED <<document_metadata, disk_index, disk_metadata, deleted>>
           ELSE /\ vectorstore' = new_vectorstore
                /\ document_metadata' = new_metadata
                /\ disk_index' = SavedIndex(new_vectorstore, fail)
                /\ disk_metadata' = SavedMetadata(new_metadata, fail)
                /\ IF SaveRaises(fail)
                   THEN /\ response' = AddRaised(filename)
                        /\ UNCHANGED deleted
                   ELSE /\ response' = [op |-> "add", filename |-> filename,
                                        raised |-> FALSE, returned |-> "success",
                                        chunks_added |-> Len(chunks)]
                        /\ deleted' = deleted \ {filename}
        /\ UNCHANGED <<planner_tool, plannerVars>>

\* rag_tool.py:345-348: the metadata without the entry of `filename'.
MetadataKeepingAll(metadata, filename) == metadata

MetadataAfterDelete(metadata, filename) ==
    [f \in DOMAIN metadata \ {filename} |-> metadata[f]]

\* rag_tool.py:339-361: delete_document(filename).  The call never raises:
\* a failing save is caught, logged (`caught') and reported as False.
DeleteReturned(filename, result, caught) ==
    [op |-> "delete", filename |-> filename, result |-> result, raised |-> FALSE,
     caught |-> caught]

delete_document_resaving(filename, fail) ==
    /\ document_metadata' = MetadataAfterDelete(document_metadata, filename)
    /\ disk_index' = SavedIndex(vectorstore, fail)
    /\ disk_metadata' = SavedMetadata(document_metadata', fail)
    /\ response' = DeleteReturned(filename,
                        filename \in DOMAIN document_metadata /\ ~SaveRaises(fail),
                        SaveRaises(fail))
    /\ deleted' = deleted
    /\ UNCHANGED vectorstore
    /\ UNCHANGED <<planner_tool, plannerVars>>

delete_document(filename, fail) ==
    /\ IF filename \notin DOMAIN document_metadata
       THEN /\ response' = DeleteReturned(filename, FALSE, FALSE)
            /\ UNCHANGED <<document_metadata, disk_index, disk_metadata, deleted>>
       ELSE LET new_metadata == MetadataAfterDelete(document_metadata, filename)
            IN  /\ document_metadata' = new_metadata
                /\ disk_index' = SavedIndex(vectorstore, fail)
                /\ disk_metadata' = SavedMetadata(new_metadata, fail)
                /\ response' = DeleteReturned(filename, ~SaveRaises(fail),
                                              SaveRaises(fail))
                /\ deleted' = IF SaveRaises(fail) THEN deleted
                              ELSE deleted \cup {filename}
    /\ UNCHANGED vectorstore
    /\ UNCHANGED <<planner_tool, plannerVars>>

\* rag_tool.py:329-337
list_documents == {[filename |-> f, chunks_count |-> document_metadata[f].chunks_count] :
                      f \in DOMAIN document_metadata}

(***************************************************************************)
(* The document service (backend/app/services/document_service.py).  Its   *)
(* rag_tool is the RAGTool of the variables above: initialize() assigns it *)
(* before anything can fail (document_service.py:23).                      *)
(***************************************************************************)
NOT_IN_VECTOR_STORE == "Document not found in vector store"
NOT_IN_UPLOAD_DIR == "File not found in upload directory"
ERROR_DELETING_FILE == "Error deleting file"

\* document_service.py:146-150: what delete_document returns, with what the
\* call met: `tracked' (the filename was in the tool's metadata), `present'
\* (the file was in the upload directory), `rag_success' (what the tool's
\* delete_document returned) and `removed' (os.remove was done).
ServiceDeleteReturned(filename, success, errors, tracked, present, rag_success, removed) ==
    [op |-> "service_delete", filename |-> filename,
     status |-> IF success THEN "success" ELSE "partial_success",
     errors |-> errors, tracked |-> tracked, present |-> present,
     rag_success |-> rag_success, removed |-> removed]

\* document_service.py:118-158: DocumentService.delete_document(filename).
\* `fail' is the failure of the tool's save, `present' what os.path.exists
\* answers for the file in the upload directory, `remove_ok' whether
\* os.remove succeeds.  The tool's delete_document never raises, so the
\* handler of line 130 is never entered.
DocumentService_delete_document(filename, fail, present, remove_ok) ==
    LET tracked == filename \in DOMAIN document_metadata
        new_metadata == MetadataAfterDelete(document_metadata, filename)
        rag_success == tracked /\ ~SaveRaises(fail)
        errors1 == IF rag_success THEN <<>> ELSE <<NOT_IN_VECTOR_STORE>>
        errors2 == IF ~present THEN Append(errors1, NOT_IN_UPLOAD_DIR)
                   ELSE IF ~remove_ok THEN Append(errors1, ERROR_DELETING_FILE)
                   ELSE errors1
        success == ~(present /\ ~remove_ok)
    IN  /\ IF tracked
           THEN /\ document_metadata' = new_metadata
                /\ disk_index' = SavedIndex(vectorstore, fail)
                /\ disk_metadata' = SavedMetadata(new_metadata, fail)
                /\ deleted' = IF SaveRaises(fail) THEN deleted
                              ELSE deleted \cup {filename}
           ELSE UNCHANGED <<document_metadata, disk_index, disk_metadata, deleted>>
        /\ response' = ServiceDeleteReturned(filename, success, errors2, tracked,
                                             present, rag_success, present /\ remove_ok)
        /\ UNCHANGED vectorstore
        /\ UNCHANGED <<planner_tool, plannerVars>>

(***************************************************************************)
(* The environment of the agent loop: what the language model may emit     *)
(* and what a capability may return.                                       *)
(***************************************************************************)
LLMOutputs ==
    {Final(<<"A">>), Final(<<>>), Malformed, ServiceError}
        \cup {Action(t) : t \in ToolNames \cup {"calculator"}}

\* A dict with sources only, a dict with charts only, a JSON text holding
\* both fields, a JSON text that is an array, a JSON text whose sources is
\* null, a dict whose sources is null.
Observations ==
    { DictObs([sources |-> ListValue(<<"s1">>)]),
      DictObs([charts |-> ListValue(<<"c1">>)]),
      StrObs(<<"{", "sources", ":", "[", "s2", "]", ",",
               "charts", ":", "[", "c2", "]", "}">>),
      StrObs(<<"[", "s3", "]">>),
      StrObs(<<"{", "sources", ":", "null", "}">>),
      DictObs([sources |-> NullValue]) }

ExtractionLLMOutputs ==
    {Final(<<"A">>), ServiceError, Action("rag_search"), Action("calculator")}

\* The small alphabets of the multi-turn specifications.
SessionLLMOutputs == {Final(<<"A">>), ServiceError, Action("rag_search")}
SessionObservations == {DictObs([sources |-> ListValue(<<"s1">>)])}

(***************************************************************************)
(* Specifications.                                                         *)
(***************************************************************************)
PlannerInit ==
    /\ agent_executor = FALSE
    /\ sessions = <<>>
    /\ req = [r \in Requests |-> IdleReq]
    /\ ncalls = [s \in SessionIds |-> 0]
    /\ clear_result = ClearReturned(None, FALSE)

RagInit ==
    /\ vectorstore = NoVectorstore
    /\ document_metadata = <<>>
    /\ disk_index = NoArtifact
    /\ disk_metadata = NoArtifact
    /\ response = [op |-> "none"]
    /\ deleted = {}
    /\ planner_tool = NoTool

Init == PlannerInit /\ RagInit

\* The chunk lists a file may split into (its content may change between
\* two ingestions).
ChunkLists(file_path) == {[i \in 1..n |-> ChunkText(file_path, i)] : n \in 0..MaxChunks}

InitFailures == {"none", "embeddings", "load_index", "load_metadata",
                 "save_index", "save_metadata"}
AddFailures == {"none", "load", "no_content", "embed", "stat",
                "save_index", "save_metadata"}
SaveFailures == {"none", "save_index", "save_metadata"}

\* The retrieval tool alone: instances are constructed and initialized
\* (every failure allowed), documents ingested, deleted and searched.  The
\* failures of an ingestion are the loader's and the one between the index
\* update and the metadata update; a deletion's save may fail.
RagAddFailures == {"none", "load", "stat"}
RagDeleteFailures == {"none", "save_index"}

RagNext ==
    \/ Construct
    \/ \E found \in BOOLEAN, fail \in InitFailures : initialize(found, fail)
    \/ \E f \in Files, fail \in RagAddFailures :
          \E texts \in ChunkLists(f) : add_document(f, texts, fail, MaxVectors)
    \/ \E f \in Files, fail \in RagDeleteFailures : delete_document(f, fail)
    \/ \E q \in SearchQueries, embed_ok \in BOOLEAN, llm_ok \in BOOLEAN :
          _arun(q, embed_ok, llm_ok)

RagSpec == Init /\ [][RagNext]_vars

\* The operations that write, with every failure of every step allowed; no
\* search.
PersistAddFailures == {"none", "embed", "stat", "save_index", "save_metadata"}

PersistNext ==
    \/ Construct
    \/ \E found \in BOOLEAN, fail \in InitFailures : initialize(found, fail)
    \/ \E f \in Files, fail \in PersistAddFailures :
          \E texts \in ChunkLists(f) : add_document(f, texts, fail, MaxVectors)
    \/ \E f \in Files, fail \in SaveFailures : delete_document(f, fail)

PersistSpec == Init /\ [][PersistNext]_vars

\* A freshly created empty index and successful ingestions only.
IngestNext ==
    \/ initialize(FALSE, "none")
    \/ \E f \in Files :
          \E texts \in ChunkLists(f) : add_document(f, texts, "none", IngestVectors)

IngestSpec == Init /\ [][IngestNext]_vars

\* One query at a time through the agent loop, every routing output allowed
\* and one observation; the session may be cleared at any moment.
RoutingNext ==
    \/ \E r \in SerialRequests : ProcessQuery(r, "sA", "q1", AgentCalls)
    \/ \E r \in SerialRequests, ok \in BOOLEAN : Initialize(r, ok)
    \/ \E r \in SerialRequests, out \in LLMOutputs : AgentPlan(r, out)
    \/ \E r \in SerialRequests, o \in SessionObservations : ToolReturn(r, o)
    \/ clear_session("sA")

RoutingSpec == Init /\ [][RoutingNext]_vars

\* One query at a time through the agent loop, every observation allowed
\* and one registered capability; the session may be cleared at any moment.
ExtractionNext ==
    \/ \E r \in SerialRequests : ProcessQuery(r, "sA", "q1", AgentCalls)
    \/ \E r \in SerialRequests, ok \in BOOLEAN : Initialize(r, ok)
    \/ \E r \in SerialRequests, out \in ExtractionLLMOutputs : AgentPlan(r, out)
    \/ \E r \in SerialRequests, o \in Observations : ToolReturn(r, o)
    \/ clear_session("sA")

ExtractionSpec == Init /\ [][ExtractionNext]_vars

\* Calls serialized by the caller, on two sessions, never cleared.
SerialNext ==
    \/ \E r \in SerialRequests, s \in SessionIds, q \in Queries :
          ProcessQuery(r, s, q, SessionCalls)
    \/ \E r \in SerialRequests, ok \in BOOLEAN : Initialize(r, ok)
    \/ \E r \in SerialRequests, out \in SessionLLMOutputs : AgentPlan(r, out)
    \/ \E r \in SerialRequests, o \in SessionObservations : ToolReturn(r, o)

SerialSpec == Init /\ [][SerialNext]_vars

(***************************************************************************)
(* Properties of the query planner.                                        *)
(***************************************************************************)
Returned(r) == req[r].pc = "returned"
ReturnedNormally(r) == req[r].pc = "returned" /\ req[r].exc = None

StepTool(step) == step[1].tool
StepObs(step) == step[2]

IsErrorResponse(result) ==
    /\ NonEmptyText(result.answer)
    /\ result.sources = <<>>
    /\ result.charts = <<>>
    /\ result.query_type = "error"

Alternates(messages) ==
    \A i \in DOMAIN messages :
        messages[i].type = IF i % 2 = 1 THEN "user" ELSE "assistant"

\* C1: once N process_query calls on a session have returned (serialized,
\* never cleared, whatever their outcome), get_session_history holds
\* exactly 2N turns, alternating user then assistant.
C1_HistoryHasTwoTurnsPerCall ==
    \A s \in SessionIds :
        (\A r \in Requests : ~(InFlight(r) /\ req[r].session_id = s)) =>
            /\ Len(get_session_history(s)) = 2 * ncalls[s]
            /\ Alternates(get_session_history(s))

\* C2: process_query never lets an exception out: whenever initialization,
\* the agent run, the extraction or the session update failed, the call
\* returned the degraded response (non-empty answer, no sources, no charts,
\* query_type "error").
C2_NeverPropagates ==
    \A r \in Requests :
        /\ req[r].pc # "raised"
        /\ (Returned(r) /\ req[r].exc # None) => IsErrorResponse(req[r].result)
        /\ ReturnedNormally(r) => req[r].result.query_type # "error"

\* A call whose session was cleared while the agent ran: the session update
\* failed and the call still returned.
C2_Witness ==
    \E r \in Requests : Returned(r) /\ req[r].exc = "KeyError"

\* The earliest step whose tool is a known capability.
EarliestKnownTool(steps) ==
    IF \E i \in DOMAIN steps : StepTool(steps[i]) \in ToolNames
    THEN LET i == CHOOSE j \in DOMAIN steps :
                      /\ StepTool(steps[j]) \in ToolNames
                      /\ \A k \in 1..(j - 1) : StepTool(steps[k]) \notin ToolNames
         IN  StepTool(steps[i])
    ELSE "general"

Used(steps, tool) == \E i \in DOMAIN steps : StepTool(steps[i]) = tool

\* C7 as stated: query_type is the capability of the earliest step that used
\* a known capability, "general" when no step did.
C7_QueryTypeIsEarliestKnownTool ==
    \A r \in Requests :
        ReturnedNormally(r) =>
            req[r].result.query_type = EarliestKnownTool(req[r].result.intermediate_steps)

\* C7 as amended: query_type is chosen by a fixed priority over the
\* capabilities used anywhere in the run: rag_search if any step used it,
\* else sql_analytics, else web_search, else "general".
C7_QueryTypeByPriority ==
    \A r \in Requests :
        ReturnedNormally(r) =>
            LET steps == req[r].result.intermediate_steps
                qt == req[r].result.query_type
            IN  /\ Used(steps, "rag_search") => qt = "rag_search"
                /\ (~Used(steps, "rag_search") /\ Used(steps, "sql_analytics"))
                      => qt = "sql_analytics"
                /\ (~Used(steps, "rag_search") /\ ~Used(steps, "sql_analytics")
                      /\ Used(steps, "web_search")) => qt = "web_search"
                /\ (\A t \in ToolNames : ~Used(steps, t)) => qt = "general"

\* Steps [web_search, rag_search]: the run is typed rag_search.
C7_Witness ==
    \E r \in Requests :
        /\ ReturnedNormally(r)
        /\ Len(req[r].result.intermediate_steps) = 2
        /\ StepTool(req[r].result.intermediate_steps[1]) = "web_search"
        /\ StepTool(req[r].result.intermediate_steps[2]) = "rag_search"
        /\ req[r].result.query_type = "rag_search"

\* The items an observation holds under a field: those of a dict, or of a
\* text that parses as a JSON object; nothing otherwise.
FieldItems(observation, field) ==
    IF observation.type = "dict"
    THEN IF field \in DOMAIN observation.fields
         THEN observation.fields[field].items ELSE <<>>
    ELSE LET parsed == json_loads(observation.text)
         IN  IF parsed.ok /\ parsed.kind = "dict" /\ field \in DOMAIN parsed.fields
             THEN parsed.fields[field].items ELSE <<>>

\* How many items the steps before step i hold under a field.
RECURSIVE ItemsBefore(_, _, _)
ItemsBefore(steps, i, field) ==
    IF i <= 1 THEN 0
    ELSE ItemsBefore(steps, i - 1, field) + Len(FieldItems(StepObs(steps[i - 1]), field))

IsConcatenation(list, steps, field) ==
    /\ Len(list) = ItemsBefore(steps, Len(steps) + 1, field)
    /\ \A i \in DOMAIN steps :
          \A k \in DOMAIN FieldItems(StepObs(steps[i]), field) :
              list[ItemsBefore(steps, i, field) + k]
                  = FieldItems(StepObs(steps[i]), field)[k]


\* C8: the sources (and the charts) returned are the concatenation, in step
\* order, of the field's items of every step's observation; a step that
\* lacks the field, does not parse or parses to a non-object adds nothing
\* and aborts nothing: only a dict whose field is not a list makes the
\* extraction fail.
C8_ArtifactsAreConcatenation ==
    \A r \in Requests :
        /\ ReturnedNormally(r) =>
              /\ IsConcatenation(req[r].result.sources,
                                 req[r].result.intermediate_steps, "sources")
              /\ IsConcatenation(req[r].result.charts,
                                 req[r].result.intermediate_steps, "charts")
        /\ (Returned(r) /\ req[r].exc = "TypeError") =>
              \E i \in DOMAIN req[r].steps :
                  /\ StepObs(req[r].steps[i]).type = "dict"
                  /\ \E f \in DOMAIN StepObs(req[r].steps[i]).fields :
                        ~StepObs(req[r].steps[i]).fields[f].iterable

\* An unparsable text, then a JSON text, then a dict: the two that hold
\* sources give them in step order.
C8_Witness ==
    \E r \in Requests :
        /\ ReturnedNormally(r)
        /\ Len(req[r].result.intermediate_steps) = 3
        /\ StepObs(req[r].result.intermediate_steps[1]) = InvalidToolObs("calculator")
        /\ StepObs(req[r].result.intermediate_steps[2]).type = "str"
        /\ StepObs(req[r].result.intermediate_steps[3]).type = "dict"
        /\ req[r].result.sources = <<"s2", "s1">>
        /\ req[r].result.charts = <<"c2">>

\* A step whose observation is an error note: the routing output named an
\* unregistered capability or could not be parsed.
IsErrorNote(step) == StepTool(step) \notin ToolNames

\* One call through the agent loop, every kind of routing output allowed,
\* under the scheduling the event loop gives it: an awaited call that can
\* return does return.
LoopLLMOutputs ==
    {Final(<<"A">>), Final(<<>>), Malformed, ServiceError,
     Action("rag_search"), Action("web_search"), Action("calculator")}

LoopNext ==
    \/ \E r \in SerialRequests : ProcessQuery(r, "sA", "q1", AgentCalls)
    \/ \E r \in SerialRequests, ok \in BOOLEAN : Initialize(r, ok)
    \/ \E r \in SerialRequests, out \in LoopLLMOutputs : AgentPlan(r, out)
    \/ \E r \in SerialRequests, o \in SessionObservations : ToolReturn(r, o)

LoopFairSpec == Init /\ [][LoopNext]_vars /\ WF_vars(LoopNext)

LoopIsBounded ==
    \A r \in Requests :
        /\ Len(req[r].steps) <= AGENT_MAX_ITERATIONS
        /\ req[r].iterations <= AGENT_MAX_ITERATIONS
        /\ req[r].pc \in {"think", "act"} =>
              /\ req[r].iterations = Len(req[r].steps)
              /\ req[r].iterations < AGENT_MAX_ITERATIONS
        /\ (Returned(r) /\ req[r].forced) =>
              /\ Len(req[r].result.intermediate_steps) = AGENT_MAX_ITERATIONS
              /\ NonEmptyText(req[r].result.answer)

\* C9: the agent loop terminates whatever the language model emits: a call
\* takes at most max_iterations act/observe steps, a model that keeps
\* asking for another action is stopped at the limit with a non-empty
\* answer, and every call in flight returns.
C9_LoopTerminates ==
    /\ []LoopIsBounded
    /\ \A r \in SerialRequests : InFlight(r) ~> Returned(r)

\* The model asked for a registered capability at every turn and was stopped
\* at the limit.
C9_Witness ==
    \E r \in Requests :
        /\ ReturnedNormally(r)
        /\ req[r].forced
        /\ \A i \in DOMAIN req[r].steps : StepTool(req[r].steps[i]) \in ToolNames
        /\ req[r].result.answer = STOPPED_ANSWER

\* The error notes after which the model was asked again: all but one taken
\* at the iteration limit, where the executor stops instead.
Reprompts(r) ==
    Cardinality({i \in DOMAIN req[r].steps :
                    IsErrorNote(req[r].steps[i]) /\ i < AGENT_MAX_ITERATIONS})

ErrorNotes(r) ==
    Cardinality({i \in DOMAIN req[r].steps : IsErrorNote(req[r].steps[i])})

Searched == response.op = "search"

NothingIngested == document_metadata = <<>> \/ ntotal(vectorstore) = 0

\* C3 as stated: a search made in any state where no document is tracked, or
\* where the index holds no vector, returns the canned nothing-ingested
\* response with no sources and does not call the language model.
C3_NothingIngestedAnswer ==
    (Searched /\ NothingIngested) =>
        /\ response.sources = <<>>
        /\ ~response.llm_called
        /\ response.answer \in {NO_DOCUMENTS, DATABASE_EMPTY}

\* C3 as amended: a search made while no document is tracked, or while the
\* index holds no vector, returns a canned response with no sources and
\* does not call the language model; on an initialized tool the response
\* is one of the two nothing-ingested texts, before initialize() it is the
\* not-initialized text.
C3_NothingIngestedIsCanned ==
    (Searched /\ NothingIngested) =>
        /\ response.sources = <<>>
        /\ ~response.llm_called
        /\ response.answer \in {NOT_INITIALIZED, NO_DOCUMENTS, DATABASE_EMPTY}
        /\ vectorstore.exists => response.answer \in {NO_DOCUMENTS, DATABASE_EMPTY}
        /\ ~vectorstore.exists => response.answer = NOT_INITIALIZED

\* Every ingested document was deleted, its vectors are still in the index,
\* and a search that would match them answers that nothing was uploaded.
C3_Witness ==
    /\ Searched
    /\ vectorstore.exists
    /\ document_metadata = <<>>
    /\ deleted # {}
    /\ \E i \in DOMAIN vectorstore.docs :
          IsRelevant(Distance(response.query, vectorstore.docs[i].text))
    /\ response.answer = NO_DOCUMENTS
    /\ response.sources = <<>>
    /\ ~response.llm_called

\* C4: once delete_document(f) has returned true and f was not ingested
\* again, no search returns a source whose filename is f.
C4_DeletedNeverSurfaced ==
    Searched =>
        \A i \in DOMAIN response.sources : response.sources[i].filename \notin deleted

\* C5: add_document rebuilds the index from the new chunks alone exactly
\* when the index held no vector; when it held one or more, the new chunks
\* are appended and every vector indexed before is retained.
C5_ReplacedOnlyWhenEmpty ==
    [][(response'.op = "add" /\ vectorstore' # vectorstore) =>
          /\ ntotal(vectorstore') >= ntotal(vectorstore)
          /\ SubSeq(vectorstore'.docs, 1, ntotal(vectorstore)) = vectorstore.docs]_vars

RECURSIVE SumChunks(_)
\* The sum of chunks_count over the tracked documents.
SumChunks(metadata) ==
    IF DOMAIN metadata = {} THEN 0
    ELSE LET f == CHOOSE g \in DOMAIN metadata : TRUE
         IN  metadata[f].chunks_count
                 + SumChunks([g \in DOMAIN metadata \ {f} |-> metadata[g]])

\* C6: after any sequence of successful add_document calls on a freshly
\* created empty index, the index holds as many vectors as the tracked
\* documents have chunks.
C6_IndexSizeIsSumOfChunks ==
    vectorstore.exists => ntotal(vectorstore) = SumChunks(document_metadata)

(***************************************************************************)
(* Properties of the operations that write.  `Called(op)' holds of a step  *)
(* that is a call of `op': every call sets the response, and a step that   *)
(* leaves the response as it was changes nothing of the tool.              *)
(***************************************************************************)
Called(op) == response' # response /\ response'.op = op

InMemoryIndex == Artifact(vectorstore.docs)
InMemoryMetadata == Artifact(document_metadata)

\* C11: whenever add_document or delete_document writes an artifact, the
\* index artifact and the metadata artifact on disk are both those of the
\* in-memory state the call ended in: neither is written without the other,
\* at whatever step the call fails.
C11_ArtifactsWrittenTogether ==
    [][(Called("add") \/ Called("delete")) =>
          /\ disk_index' # disk_index => disk_metadata' = InMemoryMetadata'
          /\ disk_metadata' # disk_metadata => disk_index' = InMemoryIndex']_vars

Listed(filename) == \E d \in list_documents : d.filename = filename

\* C12: as soon as delete_document(f) returns true, list_documents() has no
\* entry for f, whatever vectors remain in the index, and every other
\* tracked document is listed as before.
C12_DeletedIsUnlisted ==
    [][(Called("delete") /\ response'.result) =>
          /\ Listed(response'.filename)
          /\ \A d \in list_documents' : d.filename # response'.filename
          /\ \A d \in list_documents :
                d.filename # response'.filename => d \in list_documents']_vars

\* A document was deleted while another is tracked, and the vectors of the
\* deleted one are still in the index.
C12_Witness ==
    /\ response.op = "delete"
    /\ response.result
    /\ ~Listed(response.filename)
    /\ list_documents # {}
    /\ \E i \in DOMAIN vectorstore.docs : vectorstore.docs[i].source = response.filename

\* C13: delete_document(f) of a filename that is not tracked returns false
\* without raising and changes nothing: not the metadata, not the index,
\* not the artifacts on disk.
C13_UntrackedDeleteIsNoOp ==
    [][(Called("delete") /\ response'.filename \notin DOMAIN document_metadata) =>
          /\ ~response'.result
          /\ ~response'.raised
          /\ UNCHANGED <<document_metadata, vectorstore, disk_index, disk_metadata>>]_vars

\* An untracked name was deleted while documents are tracked and the disk
\* lags behind the memory (a save would have changed it).
C13_Witness ==
    /\ response.op = "delete"
    /\ response.filename = "c.xyz"
    /\ ~response.result
    /\ document_metadata # <<>>
    /\ disk_index # InMemoryIndex

\* C14: an error raised while add_document or delete_document updates or
\* persists the index and the metadata reaches the caller as a failure:
\* a call that caught one raised, and a call that returned success has
\* persisted the state it left in memory.
C14_WriteErrorsReachCaller ==
    /\ (response.op = "delete" /\ response.caught) => response.raised
    /\ (response.op = "add" /\ ~response.raised /\ response.returned = "success") =>
          /\ disk_index = InMemoryIndex
          /\ disk_metadata = InMemoryMetadata

IsSupported(filename) == Extension(filename) \in {".pdf", ".txt", ".md", ".docx", ".doc"}

\* C15: add_document of a file whose extension is not supported fails that
\* call and leaves the index, the metadata and the artifacts on disk as
\* they were.
C15_UnsupportedFormatFails ==
    [][(Called("add") /\ ~IsSupported(response'.filename)) =>
          /\ response'.raised
          /\ UNCHANGED <<document_metadata, vectorstore, disk_index, disk_metadata>>]_vars

\* An unsupported file was refused while documents are tracked.
C15_Witness ==
    /\ response.op = "add"
    /\ ~IsSupported(response.filename)
    /\ response.raised
    /\ document_metadata # <<>>
    /\ ntotal(vectorstore) > 0

(***************************************************************************)
(* The wall-clock bound.  config.AGENT_TIMEOUT is defined and never given  *)
(* to the executor, and no call is wrapped in a timer: the loop has no     *)
(* step of its own to take while the language-model call is awaited.  The  *)
(* scheduling below guarantees every step but the model's answer.          *)
(***************************************************************************)
HangFairSpec ==
    /\ Init
    /\ [][LoopNext]_vars
    /\ WF_vars(\E r \in SerialRequests : ProcessQuery(r, "sA", "q1", AgentCalls))
    /\ WF_vars(\E r \in SerialRequests, ok \in BOOLEAN : Initialize(r, ok))
    /\ WF_vars(\E r \in SerialRequests, o \in SessionObservations : ToolReturn(r, o))

\* C16: a query whose agent run outlasts the configured timeout, for
\* example because a language-model call never returns, eventually returns
\* (with the degraded response) instead of waiting forever.
C16_QueryEventuallyReturns ==
    \A r \in SerialRequests : (req[r].pc = "think") ~> Returned(r)

(***************************************************************************)
(* The life of a session.                                                  *)
(***************************************************************************)
LifecycleLLMOutputs == {Final(<<"A">>), ServiceError}

\* Queries on two sessions, one at a time, and clears at any moment.
LifecycleNext ==
    \/ \E r \in SerialRequests, s \in SessionIds : ProcessQuery(r, s, "q1", LifecycleCalls)
    \/ \E r \in SerialRequests, ok \in BOOLEAN : Initialize(r, ok)
    \/ \E r \in SerialRequests, out \in LifecycleLLMOutputs : AgentPlan(r, out)
    \/ \E s \in SessionIds : clear_session(s)

LifecycleSpec == Init /\ [][LifecycleNext]_vars

NeverCleared == clear_result = ClearReturned(None, FALSE)

ClearCalled ==
    \/ clear_result' # clear_result
    \/ DOMAIN sessions' # DOMAIN sessions /\ DOMAIN sessions' \subseteq DOMAIN sessions

\* A step in which a process_query call gets past initialization.
Entered(r) == req[r].pc \in {"idle", "returned", "init"} /\ req'[r].pc = "think"

SharedNext ==
    \/ \E found \in BOOLEAN : initialize(found, "none")
    \/ \E f \in Files :
          \E texts \in ChunkLists(f) : add_document(f, texts, "none", MaxVectors)
    \/ \E found \in BOOLEAN : _initialize_tools(found, "none")
    \/ \E q \in SearchQueries : rag_search(q, TRUE, TRUE)

SharedSpec == Init /\ [][SharedNext]_vars

\* A step that is a rag_search of the agent.
RagSearched ==
    planner_tool'.response # planner_tool.response /\ planner_tool'.response.op = "search"

\* C18: a document successfully ingested through the document service is
\* tracked by the tool every later rag_search of the agent runs on, whether
\* the planner was initialized before or after the ingestion.
C18_IngestedIsTrackedByAgent ==
    [][RagSearched =>
          \A f \in DOMAIN document_metadata :
              f \in DOMAIN planner_tool'.document_metadata]_vars

(***************************************************************************)
(* The relevance gate of a search.                                         *)
(***************************************************************************)
\* The candidates the index returned to the search whose response is held.
Candidates == similarity_search_with_score(vectorstore, response.query, TOP_K)

\* The search got as far as retrieving candidates.
Retrieved ==
    /\ Searched
    /\ vectorstore.exists
    /\ document_metadata # <<>>
    /\ ntotal(vectorstore) > 0
    /\ response.answer # SearchError("EmbeddingError")

\* similarity = 1 / (1 + distance) is at most 0.7.
AtMostThreshold(d) == 10 * DIST_UNIT <= 7 * (DIST_UNIT + d)

\* C20: when at least one document is tracked and every retrieved candidate
\* has similarity <= 0.7 (exactly 0.7 included), the search returns the
\* canned no-relevant-information response with no sources and does not
\* call the language model.
C20_BelowThresholdIsCanned ==
    (Retrieved /\ \A i \in DOMAIN Candidates : AtMostThreshold(Candidates[i].score)) =>
        /\ response.answer = NO_RELEVANT
        /\ response.sources = <<>>
        /\ ~response.llm_called

\* The nearest candidate has similarity exactly 0.7 and nothing is returned.
C20_Witness ==
    /\ Retrieved
    /\ Candidates # <<>>
    /\ 10 * DIST_UNIT = 7 * (DIST_UNIT + Candidates[1].score)
    /\ response.answer = NO_RELEVANT
    /\ response.sources = <<>>

(***************************************************************************)
(* The document service's deletion.                                        *)
(***************************************************************************)
\* The service is initialized on an empty store, documents are ingested,
\* and deleted through the service with every outcome of the save and of
\* the removal of the file.
ServiceNext ==
    \/ initialize(FALSE, "none")
    \/ \E f \in Files :
          \E texts \in ChunkLists(f) : add_document(f, texts, "none", MaxVectors)
    \/ \E f \in Files, fail \in SaveFailures, present \in BOOLEAN, remove_ok \in BOOLEAN :
          DocumentService_delete_document(f, fail, present, remove_ok)

ServiceSpec == Init /\ [][ServiceNext]_vars

\* C21: DocumentService.delete_document(f) reports status "success" only if
\* f was tracked by the retrieval tool and has been removed from it; when f
\* was neither tracked nor present in the upload directory, or the removal
\* failed, the status is not "success".
C21_SuccessMeansRemoved ==
    response.op = "service_delete" =>
        /\ response.status = "success" => (response.tracked /\ response.rag_success)
        /\ (~response.tracked /\ ~response.present) => response.status # "success"
        /\ (response.tracked /\ ~response.rag_success) => response.status # "success"
        /\ (response.present /\ ~response.removed) => response.status # "success"

(***************************************************************************)
(* The similarity transform.                                               *)
(***************************************************************************)
\* The distances a search of the model can meet.
ChunkTexts == {ChunkText(f, i) : f \in Files, i \in 1..MaxChunks}
Distances == {Distance(q, t) : q \in SearchQueries, t \in ChunkTexts} \cup {0, DIST_UNIT}

\* a/b > c/d for positive denominators.
FracGreater(x, y) == x.num * y.den > y.num * x.den

\* The candidates of the held search that the claimed rule keeps:
\* 10 > 7 * (1 + distance), that is distance < 3/7.
KeptByRule == {i \in DOMAIN Candidates : 10 * DIST_UNIT > 7 * (DIST_UNIT + Candidates[i].score)}

\* C22: the similarity used for gating is 1 / (1 + distance): distance 0
\* gives 1.0, distance 1 gives 0.5, a larger distance gives a strictly
\* smaller similarity; the gate keeps a chunk exactly when its distance is
\* strictly below 3/7, and a search returns one source per such candidate.
C22_SimilarityTransform ==
    /\ Similarity(0).num = Similarity(0).den
    /\ 2 * Similarity(DIST_UNIT).num = Similarity(DIST_UNIT).den
    /\ SimilarityPercent(0) = 10000
    /\ SimilarityPercent(DIST_UNIT) = 5000
    /\ \A d1, d2 \in Distances : d1 < d2 => FracGreater(Similarity(d1), Similarity(d2))
    /\ \A d \in Distances :
          /\ IsRelevant(d) <=> FracGreater(Similarity(d), [num |-> 7, den |-> 10])
          /\ IsRelevant(d) <=> 7 * d < 3 * DIST_UNIT
    /\ Retrieved =>
          /\ Len(response.sources) = Cardinality(KeptByRule)
          /\ \A i \in DOMAIN response.sources :
                response.sources[i].similarity > 7000

\* A search met a candidate just inside the gate and one at distance
\* exactly 3/7: the first is returned, the second is not.
C22_Witness ==
    /\ Retrieved
    /\ Len(Candidates) = 2
    /\ 7 * Candidates[1].score < 3 * DIST_UNIT
    /\ 7 * Candidates[2].score = 3 * DIST_UNIT
    /\ Len(response.sources) = 1
    /\ response.sources[1].filename = Candidates[1].doc.source

(***************************************************************************)
(* The sources of a search.                                                *)
(***************************************************************************)
\* An empty store is created, documents are ingested without failure up to
\* more vectors than a search retrieves, and searched without failure.
TopKNext ==
    \/ initialize(FALSE, "none")
    \/ \E f \in Files :
          \E texts \in ChunkLists(f) : add_document(f, texts, "none", TopKVectors)
    \/ \E q \in SearchQueries : _arun(q, TRUE, TRUE)

TopKSpec == Init /\ [][TopKNext]_vars

\* The position among the candidates of the i-th candidate the gate keeps.
KeptAt(i) ==
    CHOOSE k \in KeptByRule : Cardinality({j \in KeptByRule : j <= k}) = i

\* C23: the sources of a search have exactly one entry per kept chunk
\* (similarity > 0.7 among the at most 5 retrieved candidates), in the
\* order in which the index returned the candidates: at most 5 entries, a
\* subsequence of the retrieval order.
C23_SourcesInRetrievalOrder ==
    Retrieved =>
        /\ Len(Candidates) <= TOP_K
        /\ Len(response.sources) <= TOP_K
        /\ Len(response.sources) = Cardinality(KeptByRule)
        /\ \A i \in DOMAIN response.sources :
              /\ response.sources[i].filename = Candidates[KeptAt(i)].doc.source
              /\ response.sources[i].similarity
                    = SimilarityPercent(Candidates[KeptAt(i)].score)
              /\ response.sources[i].content = Content(Candidates[KeptAt(i)].doc.text)

\* More chunks than a search retrieves pass the gate: five sources come
\* back, the nearer chunks first, and the first and the last differ.
C23_Witness ==
    /\ Retrieved
    /\ Cardinality({i \in DOMAIN vectorstore.docs :
                       IsRelevant(Distance(response.query, vectorstore.docs[i].text))}) > TOP_K
    /\ Len(response.sources) = TOP_K
    /\ response.sources[1] # response.sources[TOP_K]

(***************************************************************************)
(* The memory window.                                                      *)
(***************************************************************************)
\* Queries on one session, one at a time; the model answers or fails.
WindowNext ==
    \/ \E r \in SerialRequests, q \in Queries : ProcessQuery(r, "sA", q, WindowCalls)
    \/ \E r \in SerialRequests : Initialize(r, TRUE)
    \/ \E r \in SerialRequests, out \in LifecycleLLMOutputs : AgentPlan(r, out)

WindowSpec == Init /\ [][WindowNext]_vars

\* The memory of a session as a query on it finds it.
MemoryOf(s) == IF s \in DOMAIN sessions THEN sessions[s].memory ELSE <<>>

RoleLine(message) ==
    <<IF message.type = "human" THEN "Human: " ELSE "Assistant: ", message.content>>

\* C24: the history text built for a query consists of exactly the last
\* min(6, n) messages of the session's memory as it was before the query,
\* in their order, one role-prefixed line per message; older messages and
\* the query itself are not part of it.
C24_HistoryIsLastSix ==
    [][\A r \in Requests :
          Entered(r) =>
              LET memory == MemoryOf(req'[r].session_id)
                  n == Len(memory)
                  k == IF n < 6 THEN n ELSE 6
              IN  /\ Len(req'[r].history_text) = k
                  /\ \A i \in 1..k :
                        req'[r].history_text[i] = RoleLine(memory[n - k + i])]_vars

\* The fifth query on a session whose memory holds four exchanges: the
\* history text has six lines and does not start with the oldest message.
C24_Witness ==
    \E r \in Requests :
        /\ req[r].pc = "think"
        /\ Len(MemoryOf(req[r].session_id)) > MEMORY_WINDOW
        /\ Len(req[r].history_text) = MEMORY_WINDOW
        /\ req[r].history_text[1] # RoleLine(MemoryOf(req[r].session_id)[1])
        /\ req[r].history_text[MEMORY_WINDOW]
              = RoleLine(MemoryOf(req[r].session_id)[Len(MemoryOf(req[r].session_id))])

(***************************************************************************)
(* The errors of a search.                                                 *)
(***************************************************************************)
\* C25: a rag_search invocation never raises into the agent loop: an error
\* during retrieval, embedding or answer synthesis is converted into an
\* observation whose answer is a non-empty explanatory text.
C25_SearchNeverRaises ==
    Searched =>
        /\ ~response.raised
        /\ NonEmptyText(response.answer)
        /\ response.error # None =>
              /\ \E i \in DOMAIN response.answer : response.answer[i] = response.error
              /\ \E i \in DOMAIN response.answer :
                    response.answer[i] \notin {"", response.error}

\* The embedding of the query failed while documents are tracked and
\* indexed, and the search returned its explanation.
C25_Witness ==
    /\ Searched
    /\ response.error = "EmbeddingError"
    /\ document_metadata # <<>>
    /\ ntotal(vectorstore) > 0
    /\ ~response.raised
    /\ response.sources = <<>>

\* C26: when the language-model call of answer synthesis fails it is
\* attempted again at most once; the search then returns normally with a
\* degraded explanatory answer, and the sources of the kept chunks are
\* still returned.
C26_FailedSynthesisKeepsSources ==
    (Searched /\ response.error = "ServiceError") =>
        /\ response.llm_called
        /\ response.llm_attempts >= 1
        /\ response.llm_attempts <= 2
        /\ ~response.raised
        /\ NonEmptyText(response.answer)
        /\ response.answer # LLMAnswer(response.query, <<>>)
        /\ response.sources # <<>>
        /\ Len(response.sources) = Cardinality(KeptByRule)
        /\ \A i \in DOMAIN response.sources :
              /\ response.sources[i].filename = Candidates[KeptAt(i)].doc.source
              /\ IsRelevant(Candidates[KeptAt(i)].score)

\* The synthesis failed on a search that kept one chunk of two candidates.
C26_Witness ==
    /\ Searched
    /\ response.error = "ServiceError"
    /\ Len(Candidates) = 2
    /\ Len(response.sources) = 1
    /\ response.answer = AnswerError("ServiceError")

(***************************************************************************)
(* Loading at initialization.                                              *)
(***************************************************************************)
\* C27: after initialize the in-memory state is one of two: the index and
\* the metadata were both loaded from their persisted artifacts, or (when
\* an artifact is missing or a load fails) the index has zero vectors and
\* document_metadata is empty; a loaded index is never paired with empty
\* metadata, nor loaded metadata with an empty index.
C27_LoadedTogetherOrEmpty ==
    [][Called("initialize") =>
          /\ \/ /\ disk_index.exists /\ disk_metadata.exists
                /\ vectorstore' = Vectorstore(disk_index.data)
                /\ document_metadata' = disk_metadata.data
             \/ /\ ntotal(vectorstore') = 0
                /\ document_metadata' = <<>>
          /\ (~disk_index.exists \/ ~disk_metadata.exists) =>
                (ntotal(vectorstore') = 0 /\ document_metadata' = <<>>)]_vars

\* A tool constructed anew loaded the documents an earlier one had
\* persisted.
C27_Witness ==
    /\ response.op = "initialize"
    /\ ~response.raised
    /\ ntotal(vectorstore) > 0
    /\ document_metadata # <<>>
    /\ disk_index = InMemoryIndex
    /\ disk_metadata = InMemoryMetadata

(***************************************************************************)
(* Concurrent calls.  Each await of process_query is a point where another *)
(* request's handler may run (planner.py:135, 158); between two awaits a   *)
(* handler runs alone.                                                     *)
(***************************************************************************)
\* The answer the model gives in the concurrent specifications: it names
\* the query it answers, so that a turn tells which request produced it.
Echo(r) == Final(<<req[r].query>>)

\* Overlapping queries on one session, and clears of it at any moment.
ConcurrentNext ==
    \/ \E r \in Requests, q \in Queries : ProcessQuery(r, "sA", q, ConcurrentCalls)
    \/ \E r \in Requests : Initialize(r, TRUE)
    \/ \E r \in Requests : AgentPlan(r, Echo(r))
    \/ \E r \in Requests : AgentPlan(r, ServiceError)
    \/ clear_session("sA")

ConcurrentSpec == Init /\ [][ConcurrentNext]_vars

TurnsOfType(messages, type) == Cardinality({i \in DOMAIN messages : messages[i].type = type})

\* C28: under any interleaving of concurrent process_query and
\* clear_session calls on one session id, every assistant turn of
\* get_session_history(S) is preceded in that history by the user turn of
\* the request that produced it, and the assistant turns never outnumber
\* the user turns, also when S is cleared and created again while a query
\* is in flight.
C28_AssistantFollowsItsUser ==
    \A s \in SessionIds :
        LET history == get_session_history(s)
        IN  /\ TurnsOfType(history, "assistant") <= TurnsOfType(history, "user")
            /\ \A i \in DOMAIN history :
                  history[i].type = "assistant" =>
                      \E j \in 1..(i - 1) :
                          /\ history[j].type = "user"
                          /\ history[j].content = history[i].content

(***************************************************************************)
(* A failed ingestion.                                                     *)
(***************************************************************************)
\* C29: if add_document raises for any reason (no content, embedding
\* failure, failure while saving), the in-memory index and
\* document_metadata are exactly as before the call, so that listing and
\* search behave as if the call had not happened.
C29_FailedAddChangesNothing ==
    [][(Called("add") /\ response'.raised) =>
          /\ vectorstore' = vectorstore
          /\ document_metadata' = document_metadata
          /\ list_documents' = list_documents]_vars

(***************************************************************************)
(* Isolation of sessions.                                                  *)
(***************************************************************************)
\* Two overlapping queries at a time on two sessions, and clears of either
\* at any moment.
PairOfRequests == {1, 2}

IsolationNext ==
    \/ \E r \in PairOfRequests, s \in SessionIds :
          ProcessQuery(r, s, "q1", IsolationCalls)
    \/ \E r \in PairOfRequests : Initialize(r, TRUE)
    \/ \E r \in PairOfRequests : AgentPlan(r, Echo(r))
    \/ \E r \in PairOfRequests : AgentPlan(r, ServiceError)
    \/ \E s \in SessionIds : clear_session(s)

IsolationSpec == Init /\ [][IsolationNext]_vars

\* A step of a process_query or of a clear_session on session a.
StepOn(a) ==
    \/ \E r \in Requests : req'[r] # req[r] /\ req'[r].session_id = a
    \/ clear_result' # clear_result /\ clear_result'.session_id = a
    \/ a \in DOMAIN sessions /\ a \notin DOMAIN sessions'

\* C30: sessions are isolated: for distinct ids A and B, a step of a
\* process_query or of a clear_session on A, under any interleaving,
\* leaves get_session_history(B) and the memory used for B's routing
\* prompt as they were.
C30_SessionsAreIsolated ==
    [][\A a, b \in SessionIds :
          (a # b /\ StepOn(a)) =>
              /\ (b \in DOMAIN sessions) <=> (b \in DOMAIN sessions')
              /\ b \in DOMAIN sessions => sessions'[b] = sessions[b]
              /\ get_session_history(b)' = get_session_history(b)
              /\ \A r \in Requests :
                    (InFlight(r) /\ req[r].session_id = b) => req'[r] = req[r]]_vars

\* One session was cleared while a query on the other, which has history,
\* is in flight.
C30_Witness ==
    /\ clear_result = ClearReturned("sA", TRUE)
    /\ "sA" \notin DOMAIN sessions
    /\ \E r \in Requests : InFlight(r) /\ req[r].session_id = "sB"
    /\ Len(get_session_history("sB")) >= 3

====
